---- MODULE Spec2Model ----
(***************************************************************************)
(* Model of reservation_system.py: three JSON files on disk (hotels.json,  *)
(* customers.json, reservations.json), the Persistence helper that loads   *)
(* and saves them, and the three manager classes that load the whole       *)
(* collection, change it in memory and save it back.                       *)
(*                                                                         *)
(* A file on disk is a record [kind, data]:                                *)
(*   kind = "absent"        os.path.exists is False                        *)
(*   kind = "invalid_json"  text that json.load rejects (JSONDecodeError)  *)
(*   kind = "not_utf8"      bytes that are not UTF-8 (UnicodeDecodeError)  *)
(*   kind = "json_object"   the valid JSON text {} : not an array          *)
(*   kind = "json_array"    a JSON array; data is its sequence of entries  *)
(* An entry is a Python dict, modelled as a function from key to value.    *)
(* The values written by the program are strings and integers, which       *)
(* json.dump / json.load carry over unchanged.                             *)
(***************************************************************************)
EXTENDS Integers, Sequences, FiniteSets, TLC

VARIABLES files, last, proc, saved

vars == <<files, last, proc, saved>>

\* ------------------------------------------------------------------ bounds
MaxHotels == 2
MaxCustomers == 2
MaxReservations == 2

\* ------------------------------------------------------------ the managers
Managers == {"hotel", "customer", "reservation"}

\* HotelManager.FILE, CustomerManager.FILE, ReservationManager.FILE
FILE(m) ==
  CASE m = "hotel" -> "hotels.json"
    [] m = "customer" -> "customers.json"
    [] m = "reservation" -> "reservations.json"

\* the key each manager compares: h['hotel_id'], c['customer_id'],
\* r['reservation_id']
IdKey(m) ==
  CASE m = "hotel" -> "hotel_id"
    [] m = "customer" -> "customer_id"
    [] m = "reservation" -> "reservation_id"

MaxLen(m) ==
  CASE m = "hotel" -> MaxHotels
    [] m = "customer" -> MaxCustomers
    [] m = "reservation" -> MaxReservations

IDs == {"1", "2"}

EmptyDict == [k \in {} |-> ""]

\* ------------------------------------------------------------ the entities
\* Hotel.__init__ and Hotel.to_dict (self.__dict__)
Hotel(hotel_id, name, location, rooms_available) ==
  [hotel_id |-> hotel_id, name |-> name, location |-> location,
   rooms_available |-> rooms_available]

\* Customer.__init__ and Customer.to_dict
Customer(customer_id, name, email) ==
  [customer_id |-> customer_id, name |-> name, email |-> email]

\* Reservation.__init__ and Reservation.to_dict
Reservation(reservation_id, customer_id, hotel_id) ==
  [reservation_id |-> reservation_id, customer_id |-> customer_id,
   hotel_id |-> hotel_id]

\* ------------------------------------------------------------- Persistence
Absent == [kind |-> "absent", data |-> <<>>]
InvalidJson == [kind |-> "invalid_json", data |-> <<>>]
NotUtf8 == [kind |-> "not_utf8", data |-> <<>>]
JsonObject == [kind |-> "json_object", data |-> <<>>]
JsonArray(s) == [kind |-> "json_array", data |-> s]

\* Python values load_data can return: a list, or the dict {} of the file {}
PyList(s) == [type |-> "list", items |-> s]
PyDict == [type |-> "dict", items |-> <<>>]

\* Persistence.load_data: exc is the exception that leaves the call,
\* report is the print of "Error reading ... Invalid format."
load_data(f) ==
  IF f.kind # "absent"
  THEN CASE f.kind = "json_array" ->
              [exc |-> "none", report |-> FALSE, val |-> PyList(f.data)]
         [] f.kind = "json_object" ->
              [exc |-> "none", report |-> FALSE, val |-> PyDict]
         [] f.kind = "invalid_json" ->
              [exc |-> "none", report |-> TRUE, val |-> PyList(<<>>)]
         [] f.kind = "not_utf8" ->
              [exc |-> "UnicodeDecodeError", report |-> FALSE,
               val |-> PyList(<<>>)]
  ELSE [exc |-> "none", report |-> FALSE, val |-> PyList(<<>>)]

\* Persistence.save_data: the file is overwritten by json.dump(data)
save_data(data) ==
  IF data.type = "list" THEN JsonArray(data.items) ELSE JsonObject

\* --------------------------------------------------- the manager operations
\* The result of a call on the file content f: the content afterwards, the
\* exception that left the call, whether load_data printed its report, and
\* the entries display printed.
Result(f, exc, report, shown) ==
  [file |-> f, exc |-> exc, report |-> report, shown |-> shown]

\* faulty variant of Without: only the first entry with the identifier is removed
WithoutFirst(items, key, id) ==
  IF \E i \in 1..Len(items) : items[i][key] = id
  THEN LET n == CHOOSE i \in 1..Len(items) :
                  /\ items[i][key] = id
                  /\ \A j \in 1..(i - 1) : items[j][key] # id
       IN SubSeq(items, 1, n - 1) \o SubSeq(items, n + 1, Len(items))
  ELSE items

\* [x for x in items if x[key] != id]
RECURSIVE Without(_, _, _)
Without(items, key, id) ==
  IF items = <<>> THEN <<>>
  ELSE IF Head(items)[key] # id
       THEN <<Head(items)>> \o Without(Tail(items), key, id)
       ELSE Without(Tail(items), key, id)

\* faulty variant of Printed: the loop stops after the first entry it prints
PrintedFirst(items, key, id) ==
  IF \E i \in 1..Len(items) : items[i][key] = id
  THEN <<items[CHOOSE i \in 1..Len(items) :
                 /\ items[i][key] = id
                 /\ \A j \in 1..(i - 1) : items[j][key] # id]>>
  ELSE <<>>

\* for x in items: if x[key] == id: print(x)
RECURSIVE Printed(_, _, _)
Printed(items, key, id) ==
  IF items = <<>> THEN <<>>
  ELSE IF Head(items)[key] = id
       THEN <<Head(items)>> \o Printed(Tail(items), key, id)
       ELSE Printed(Tail(items), key, id)

\* faulty variant of update: only the keys the dict already has are assigned
update_existing(d, new_info) ==
  [k \in DOMAIN d |-> IF k \in DOMAIN new_info THEN new_info[k] ELSE d[k]]

\* dict.update(new_info)
update(d, new_info) ==
  [k \in DOMAIN d \cup DOMAIN new_info |->
     IF k \in DOMAIN new_info THEN new_info[k] ELSE d[k]]

\* for x in items: if x[key] == id: x.update(new_info)
Updated(items, key, id, new_info) ==
  [i \in 1..Len(items) |->
     IF items[i][key] = id THEN update(items[i], new_info) ELSE items[i]]

\* faulty variant of created: the record is inserted in front
created_in_front(val, rec) ==
  IF val.type = "list"
  THEN [exc |-> "none", val |-> PyList(<<rec>> \o val.items)]
  ELSE [exc |-> "AttributeError", val |-> val]

\* create_hotel / create_customer / create_reservation, after the load:
\* hotels.append(hotel.to_dict()); a dict has no append
created(val, rec) ==
  IF val.type = "list"
  THEN [exc |-> "none", val |-> PyList(Append(val.items, rec))]
  ELSE [exc |-> "AttributeError", val |-> val]

\* delete_hotel / delete_customer / cancel_reservation, after the load
deleted(val, key, id) ==
  [exc |-> "none", val |-> PyList(Without(val.items, key, id))]

\* modify_hotel / modify_customer, after the load: the loaded object itself
\* is saved
modified(val, key, id, new_info) ==
  [exc |-> "none",
   val |-> [type |-> val.type, items |-> Updated(val.items, key, id, new_info)]]

\* what an operation computes from the value it loaded
Compute(op, val, key, id, arg) ==
  CASE op = "create" -> created(val, arg)
    [] op = "delete" -> deleted(val, key, id)
    [] op = "modify" -> modified(val, key, id, arg)

\* a mutating operation as one sequential call: load, compute, save
Mutate(op, f, key, id, arg) ==
  LET ld == load_data(f)
      c == Compute(op, ld.val, key, id, arg)
  IN IF ld.exc # "none" THEN Result(f, ld.exc, ld.report, <<>>)
     ELSE IF c.exc # "none" THEN Result(f, c.exc, ld.report, <<>>)
     ELSE Result(save_data(c.val), "none", ld.report, <<>>)

create(f, key, rec) == Mutate("create", f, key, rec[key], rec)

delete(f, key, id) == Mutate("delete", f, key, id, EmptyDict)

modify(f, key, id, new_info) == Mutate("modify", f, key, id, new_info)

\* display_hotel / display_customer: nothing is saved
display(f, key, id) ==
  LET ld == load_data(f)
  IN IF ld.exc # "none" THEN Result(f, ld.exc, ld.report, <<>>)
     ELSE Result(f, "none", ld.report, Printed(ld.val.items, key, id))

\* ----------------------------------------------------------------- inputs
\* the objects the callers construct (setUp builds Hotel('1', 'Grand Plaza',
\* 'New York', 100), Customer('1', 'John Doe', 'john@example.com') and
\* Reservation('1', '1', '1'))
HotelInputs == {Hotel(i, "Grand Plaza", "New York", 100) : i \in IDs}
CustomerInputs == {Customer(i, "John Doe", "john@example.com") : i \in IDs}
ReservationInputs == {Reservation(i, "1", "1") : i \in IDs}

\* the new_info dicts given to modify_hotel and modify_customer
HotelInfos == {[name |-> "Ritz", stars |-> 5], [hotel_id |-> "2"]}
CustomerInfos == {[customer_id |-> "2"]}

\* ------------------------------------------------------------------ state
\* last: the most recent complete call (its method, manager, arguments, the
\* number of entries it loaded, the exception that left it, its output)
NoCall ==
  [op |-> "none", mgr |-> "none", id |-> "", arg |-> EmptyDict, before |-> 0,
   exc |-> "none", report |-> FALSE, shown |-> <<>>]

Idle ==
  [pc |-> "idle", op |-> "none", mgr |-> "none", id |-> "", arg |-> EmptyDict,
   val |-> PyList(<<>>), first |-> FALSE]

Procs == {1, 2}

\* what can lie on disk before the program runs
InitialFiles == {Absent, InvalidJson, NotUtf8, JsonObject}

Init ==
  /\ files \in [Managers -> InitialFiles]
  /\ last = NoCall
  /\ proc = [p \in Procs |-> Idle]
  /\ saved = <<>>

\* one complete call of a manager method
Call(op, m, id, arg, r) ==
  /\ files' = [files EXCEPT ![m] = r.file]
  /\ last' = [op |-> op, mgr |-> m, id |-> id, arg |-> arg,
              before |-> Len(load_data(files[m]).val.items), exc |-> r.exc,
              report |-> r.report, shown |-> r.shown]
  /\ UNCHANGED <<proc, saved>>

Room(m) == Len(files[m].data) < MaxLen(m)

create_hotel ==
  \E hotel \in HotelInputs :
    /\ Room("hotel")
    /\ Call("create", "hotel", hotel.hotel_id, hotel,
            create(files["hotel"], "hotel_id", hotel))

\* faulty variant of delete_hotel: the reservations of the hotel are deleted with it
delete_hotel_cascade ==
  \E hotel_id \in IDs :
    LET r == delete(files["hotel"], "hotel_id", hotel_id)
        res == delete(files["reservation"], "hotel_id", hotel_id)
    IN /\ files' = [files EXCEPT !["hotel"] = r.file,
                                  !["reservation"] = res.file]
       /\ last' = [op |-> "delete", mgr |-> "hotel", id |-> hotel_id,
                   arg |-> EmptyDict,
                   before |-> Len(load_data(files["hotel"]).val.items),
                   exc |-> r.exc, report |-> r.report, shown |-> r.shown]
       /\ UNCHANGED <<proc, saved>>

delete_hotel ==
  \E hotel_id \in IDs :
    Call("delete", "hotel", hotel_id, EmptyDict,
         delete(files["hotel"], "hotel_id", hotel_id))

display_hotel ==
  \E hotel_id \in IDs :
    Call("display", "hotel", hotel_id, EmptyDict,
         display(files["hotel"], "hotel_id", hotel_id))

modify_hotel ==
  \E hotel_id \in IDs, new_info \in HotelInfos :
    Call("modify", "hotel", hotel_id, new_info,
         modify(files["hotel"], "hotel_id", hotel_id, new_info))

create_customer ==
  \E customer \in CustomerInputs :
    /\ Room("customer")
    /\ Call("create", "customer", customer.customer_id, customer,
            create(files["customer"], "customer_id", customer))

delete_customer ==
  \E customer_id \in IDs :
    Call("delete", "customer", customer_id, EmptyDict,
         delete(files["customer"], "customer_id", customer_id))

display_customer ==
  \E customer_id \in IDs :
    Call("display", "customer", customer_id, EmptyDict,
         display(files["customer"], "customer_id", customer_id))

modify_customer ==
  \E customer_id \in IDs, new_info \in CustomerInfos :
    Call("modify", "customer", customer_id, new_info,
         modify(files["customer"], "customer_id", customer_id, new_info))

create_reservation ==
  \E reservation \in ReservationInputs :
    /\ Room("reservation")
    /\ Call("create", "reservation", reservation.reservation_id, reservation,
            create(files["reservation"], "reservation_id", reservation))

\* faulty variant of cancel_reservation: the comparison uses r['customer_id']
cancel_reservation_by_customer ==
  \E reservation_id \in IDs :
    Call("delete", "reservation", reservation_id, EmptyDict,
         delete(files["reservation"], "customer_id", reservation_id))

cancel_reservation ==
  \E reservation_id \in IDs :
    Call("delete", "reservation", reservation_id, EmptyDict,
         delete(files["reservation"], "reservation_id", reservation_id))

Next ==
  \/ create_hotel
  \/ delete_hotel
  \/ display_hotel
  \/ modify_hotel
  \/ create_customer
  \/ delete_customer
  \/ display_customer
  \/ modify_customer
  \/ create_reservation
  \/ cancel_reservation

Spec == Init /\ [][Next]_vars

\* ------------------------------------------- two interleaved operations
\* Two processes each run one mutating manager method on the shared files.
\* A method is two steps with nothing held in between: the statement that
\* calls Persistence.load_data, and the rest (compute, Persistence.save_data).
ConcInitialFiles(m) ==
  InitialFiles \cup
    {JsonArray(<<e>>) :
       e \in CASE m = "hotel" -> {Hotel("1", "Grand Plaza", "New York", 100)}
               [] m = "customer" ->
                    {Customer("1", "John Doe", "john@example.com")}
               [] m = "reservation" -> {Reservation("1", "1", "1")}}

InitConc ==
  /\ files \in {f \in [Managers -> UNION {ConcInitialFiles(m) : m \in Managers}] :
                  \A m \in Managers : f[m] \in ConcInitialFiles(m)}
  /\ last = NoCall
  /\ proc = [p \in Procs |-> Idle]
  /\ saved = <<>>

\* first statement of a method: xs = Persistence.load_data(cls.FILE)
LoadStep(p, op, m, id, arg) ==
  LET ld == load_data(files[m])
  IN /\ proc[p].pc = "idle"
     /\ proc' = [proc EXCEPT ![p] =
                   [pc |-> IF ld.exc = "none" THEN "loaded" ELSE "failed",
                    op |-> op, mgr |-> m, id |-> id, arg |-> arg,
                    val |-> ld.val,
                    first |-> \A q \in Procs \ {p} : proc[q].pc # "done"]]
     /\ UNCHANGED <<files, last, saved>>

Inputs(m) ==
  CASE m = "hotel" -> HotelInputs
    [] m = "customer" -> CustomerInputs
    [] m = "reservation" -> ReservationInputs

Infos(m) ==
  CASE m = "hotel" -> HotelInfos
    [] m = "customer" -> CustomerInfos
    [] m = "reservation" -> {}

begin_create(p) ==
  \E m \in Managers : \E rec \in Inputs(m) :
    /\ Room(m)
    /\ LoadStep(p, "create", m, rec[IdKey(m)], rec)

begin_delete(p) ==
  \E m \in Managers, id \in IDs : LoadStep(p, "delete", m, id, EmptyDict)

begin_modify(p) ==
  \E m \in Managers, id \in IDs : \E new_info \in Infos(m) :
    LoadStep(p, "modify", m, id, new_info)

\* faulty variant of finish: the collection is loaded again right before the save
finish_reload(p) ==
  LET me == proc[p]
      c == Compute(me.op, load_data(files[me.mgr]).val, IdKey(me.mgr), me.id,
                   me.arg)
  IN /\ me.pc = "loaded"
     /\ IF c.exc = "none"
        THEN /\ files' = [files EXCEPT ![me.mgr] = save_data(c.val)]
             /\ proc' = [proc EXCEPT ![p].pc = "done"]
             /\ saved' = Append(saved, p)
        ELSE /\ proc' = [proc EXCEPT ![p].pc = "failed"]
             /\ UNCHANGED <<files, saved>>
     /\ UNCHANGED last

\* the rest of the method: change the loaded value, Persistence.save_data
finish(p) ==
  LET me == proc[p]
      c == Compute(me.op, me.val, IdKey(me.mgr), me.id, me.arg)
  IN /\ me.pc = "loaded"
     /\ IF c.exc = "none"
        THEN /\ files' = [files EXCEPT ![me.mgr] = save_data(c.val)]
             /\ proc' = [proc EXCEPT ![p].pc = "done"]
             /\ saved' = Append(saved, p)
        ELSE /\ proc' = [proc EXCEPT ![p].pc = "failed"]
             /\ UNCHANGED <<files, saved>>
     /\ UNCHANGED last

NextConc ==
  \E p \in Procs :
    \/ begin_create(p)
    \/ begin_delete(p)
    \/ begin_modify(p)
    \/ finish(p)

SpecConc == InitConc /\ [][NextConc]_vars

\* ------------------------------------------------------------- properties
\* the collection a well-formed (or absent) file holds
Entries(f) == IF f.kind = "json_array" THEN f.data ELSE <<>>

\* how many entries of s have identifier id
Count(s, key, id) == Cardinality({i \in 1..Len(s) : s[i][key] = id})

\* the first entry of s with identifier id, as a sequence of length 0 or 1
FirstMatch(s, key, id) ==
  IF Count(s, key, id) = 0 THEN <<>>
  ELSE <<s[CHOOSE i \in 1..Len(s) :
             /\ s[i][key] = id
             /\ \A j \in 1..(i - 1) : s[j][key] # id]>>

\* the entries of s with identifier id (Same) or another one, in order
Matching(s, key, id) ==
  LET Same(e) == e[key] = id IN SelectSeq(s, Same)

Others(s, key, id) ==
  LET Other(e) == e[key] # id IN SelectSeq(s, Other)

\* the step just taken is a complete call of method op of manager m
Called(op, m) == last'.op = op /\ last'.mgr = m

\* C1: create on an absent or well-formed file: a load afterwards returns the
\* former collection with the record's dict appended as the last entry (one
\* entry more, the earlier ones unchanged, no duplicate check), and an
\* identifier that was not there is there exactly once.
CreateAppends ==
  [][\A m \in Managers :
       (Called("create", m) /\ files[m].kind \in {"absent", "json_array"}) =>
         LET C == Entries(files[m])
             after == load_data(files'[m])
             A == after.val.items
         IN /\ last'.exc = "none"
            /\ after.exc = "none" /\ ~after.report /\ after.val.type = "list"
            /\ Len(A) = Len(C) + 1
            /\ \A i \in 1..Len(C) : A[i] = C[i]
            /\ A[Len(A)] = last'.arg
            /\ Count(C, IdKey(m), last'.id) = 0 =>
                 Count(A, IdKey(m), last'.id) = 1]_vars

\* a create that met an entry of the same identifier and added a second one
CreateAppendsWitness ==
  /\ last.op = "create" /\ last.exc = "none" /\ last.before = 1
  /\ files[last.mgr].kind = "json_array"
  /\ Count(files[last.mgr].data, IdKey(last.mgr), last.id) = 2

\* C2: delete (cancel_reservation) on a collection leaves exactly its entries
\* of another identifier, in their order: every entry with the identifier is
\* gone, duplicates too, and no other entry is removed or altered.
DeleteFilters ==
  [][\A m \in Managers :
       (Called("delete", m) /\ files[m].kind = "json_array") =>
         /\ last'.exc = "none"
         /\ files'[m] = JsonArray(Others(files[m].data, IdKey(m), last'.id))]_vars

\* a delete that loaded two entries and removed both: duplicates
DeleteFiltersWitness ==
  /\ last.op = "delete" /\ last.exc = "none" /\ last.before = 2
  /\ files[last.mgr] = JsonArray(<<>>)

\* C3: after create_reservation(r) on an absent or well-formed file a load
\* finds r's identifier; after cancel_reservation of that identifier no load
\* finds it, and an identifier that is not in the file stays out of it until
\* a create_reservation with that identifier.
HasReservation(f, id) ==
  \E i \in 1..Len(load_data(f).val.items) :
    load_data(f).val.items[i]["reservation_id"] = id

CreateThenCancel ==
  [][\A id \in IDs :
       LET f == files["reservation"]
           g == files'["reservation"]
           usable == f.kind \in {"absent", "json_array"}
           creates == Called("create", "reservation") /\ last'.id = id
           cancels == Called("delete", "reservation") /\ last'.id = id
       IN /\ (creates /\ usable) => HasReservation(g, id)
          /\ (cancels /\ usable) => ~HasReservation(g, id)
          /\ (~HasReservation(f, id) /\ ~creates) => ~HasReservation(g, id)]_vars

\* a cancel that removed reservation "1" and kept reservation "2"
CreateThenCancelWitness ==
  /\ last.op = "delete" /\ last.mgr = "reservation" /\ last.id = "1"
  /\ last.before = 2
  /\ files["reservation"] = JsonArray(<<Reservation("2", "1", "1")>>)

\* C4 as stated: after modify the matching entries have new_fields merged in,
\* the other entries are unchanged, number and order are unchanged, and the
\* identifier of every entry of the collection is unchanged.
ModifyKeepsEveryIdentifier ==
  [][\A m \in {"hotel", "customer"} :
       Called("modify", m) =>
         LET C == Entries(files[m])
             A == Entries(files'[m])
         IN /\ Len(A) = Len(C)
            /\ \A i \in 1..Len(C) :
                 /\ A[i][IdKey(m)] = C[i][IdKey(m)]
                 /\ C[i][IdKey(m)] # last'.id => A[i] = C[i]
                 /\ C[i][IdKey(m)] = last'.id =>
                      /\ \A k \in DOMAIN last'.arg : A[i][k] = last'.arg[k]
                      /\ \A k \in DOMAIN C[i] \ DOMAIN last'.arg :
                           A[i][k] = C[i][k]]_vars

\* C4 amended: as above, but the identifier of a matching entry is unchanged
\* only when new_fields does not name the identifier field; when it does, the
\* identifier is overwritten like any other named field.
ModifyMerges ==
  [][\A m \in {"hotel", "customer"} :
       Called("modify", m) =>
         LET C == Entries(files[m])
             A == Entries(files'[m])
         IN /\ Len(A) = Len(C)
            /\ \A i \in 1..Len(C) :
                 /\ C[i][IdKey(m)] # last'.id => A[i] = C[i]
                 /\ C[i][IdKey(m)] = last'.id =>
                      /\ DOMAIN A[i] = DOMAIN C[i] \cup DOMAIN last'.arg
                      /\ \A k \in DOMAIN last'.arg : A[i][k] = last'.arg[k]
                      /\ \A k \in DOMAIN C[i] \ DOMAIN last'.arg :
                           A[i][k] = C[i][k]
                      /\ IdKey(m) \notin DOMAIN last'.arg =>
                           A[i][IdKey(m)] = C[i][IdKey(m)]]_vars

\* modify_hotel("1", {name, stars}) has renamed hotel "1", added the field
\* stars to it and left hotel "2" as it was created
ModifyMergesWitness ==
  /\ last.op = "modify" /\ last.mgr = "hotel" /\ last.id = "1"
  /\ last.arg = [name |-> "Ritz", stars |-> 5]
  /\ files["hotel"] =
       JsonArray(<<[hotel_id |-> "1", name |-> "Ritz", location |-> "New York",
                    rooms_available |-> 100, stars |-> 5],
                   Hotel("2", "Grand Plaza", "New York", 100)>>)

\* C5: load_data never raises and always returns a sequence of records; []
\* without a report for an absent file, [] with a report for every existing
\* file that is not a well-formed sequence of records.
LoadNeverRaises ==
  \A m \in Managers :
    LET r == load_data(files[m])
    IN /\ r.exc = "none"
       /\ r.val.type = "list"
       /\ files[m].kind = "absent" => (r.val.items = <<>> /\ ~r.report)
       /\ files[m].kind \notin {"absent", "json_array"} =>
            (r.val.items = <<>> /\ r.report)

\* C6: delete, modify and display of an identifier that no entry of the file
\* has signal no error and leave the file (existence and content) as it was,
\* whatever the file held before.
NotFoundIsNoOp ==
  [][\A m \in Managers :
       ( /\ last'.mgr = m
         /\ last'.op \in {"delete", "modify", "display"}
         /\ Count(Entries(files[m]), IdKey(m), last'.id) = 0 ) =>
         /\ last'.exc = "none"
         /\ files'[m] = files[m]]_vars

\* C7 as stated: display prints the first entry with the identifier and
\* nothing else (at most one entry, nothing when none matches) and does not
\* write the file.
DisplayPrintsFirst ==
  [][\A m \in {"hotel", "customer"} :
       Called("display", m) =>
         /\ last'.shown = FirstMatch(Entries(files[m]), IdKey(m), last'.id)
         /\ Len(last'.shown) <= 1
         /\ files'[m] = files[m]]_vars

\* C7 amended: display prints every entry with the identifier, in the order
\* of the collection, and no other entry; it prints no entry when none
\* matches; its only other output is load_data's report of a file that is
\* not JSON; it does not write the file.
DisplayPrintsMatches ==
  [][\A m \in {"hotel", "customer"} :
       Called("display", m) =>
         /\ last'.shown = Matching(Entries(files[m]), IdKey(m), last'.id)
         /\ last'.report = (files[m].kind = "invalid_json")
         /\ files'[m] = files[m]]_vars

\* a display that printed two entries of the same identifier
DisplayPrintsMatchesWitness ==
  /\ last.op = "display" /\ Len(last.shown) = 2
  /\ last.shown[1][IdKey(last.mgr)] = last.id
  /\ last.shown[2][IdKey(last.mgr)] = last.id

\* C8: a call of one manager leaves the files of the other two as they were
\* (so deleting a hotel or customer keeps the reservations that name it), and
\* create_reservation on an absent or well-formed reservations file succeeds
\* whatever hotels.json and customers.json hold.
OwnFileOnly ==
  [][/\ \A m \in Managers :
          last'.mgr = m => \A o \in Managers \ {m} : files'[o] = files[o]
     /\ ( /\ Called("create", "reservation")
          /\ files["reservation"].kind \in {"absent", "json_array"} ) =>
          /\ last'.exc = "none"
          /\ HasReservation(files'["reservation"], last'.id)]_vars

\* delete_hotel("1") has removed hotel "1", no customer "1" is on file, and a
\* reservation still names hotel "1" and customer "1"
OwnFileOnlyWitness ==
  /\ last.op = "delete" /\ last.mgr = "hotel" /\ last.id = "1"
  /\ last.before >= 1 /\ last.before > Len(files["hotel"].data)
  /\ files["hotel"].kind = "json_array"
  /\ Count(Entries(files["customer"]), "customer_id", "1") = 0
  /\ \E i \in 1..Len(Entries(files["reservation"])) :
       /\ files["reservation"].data[i]["hotel_id"] = "1"
       /\ files["reservation"].data[i]["customer_id"] = "1"

\* C9: when two operations on one file both load before either saves, the
\* file ends as the result the last saver computed from the commonly loaded
\* collection and the first saver's update is lost; two creates on C end as C
\* plus only the last saver's record.
LastWriterWins ==
  \A p \in Procs, q \in Procs :
    ( /\ saved = <<q, p>>
      /\ proc[p].mgr = proc[q].mgr
      /\ proc[p].first /\ proc[q].first ) =>
      LET m == proc[p].mgr
          C == proc[q].val
      IN /\ proc[p].val = C
         /\ files[m] =
              save_data(Compute(proc[p].op, C, IdKey(m), proc[p].id,
                                proc[p].arg).val)
         /\ (proc[p].op = "create" /\ proc[q].op = "create") =>
              /\ files[m].data = Append(C.items, proc[p].arg)
              /\ Len(files[m].data) = Len(C.items) + 1

\* both created a hotel on the same loaded collection, with different
\* identifiers, and the file lacks the record of the first saver
LastWriterWinsWitness ==
  /\ saved = <<1, 2>>
  /\ proc[1].op = "create" /\ proc[2].op = "create"
  /\ proc[1].mgr = "hotel" /\ proc[2].mgr = "hotel"
  /\ proc[1].first /\ proc[2].first
  /\ proc[1].id # proc[2].id
  /\ Len(proc[1].val.items) = 1
  /\ Count(files["hotel"].data, "hotel_id", proc[1].id) = 0

\* C10: a mutating operation on an existing malformed file treats it as the
\* empty collection and overwrites it: create leaves exactly the new record,
\* delete and modify leave the empty collection, and the file is well-formed
\* after any completed mutating operation.
MalformedIsOverwritten ==
  [][\A m \in Managers :
       ( /\ last'.mgr = m
         /\ last'.op \in {"create", "delete", "modify"}
         /\ files[m].kind \notin {"absent", "json_array"} ) =>
         /\ last'.exc = "none"
         /\ files'[m] =
              JsonArray(IF last'.op = "create" THEN <<last'.arg>> ELSE <<>>)]_vars

====
